---- MODULE Spec2Model ----
(***************************************************************************)
(* Mill production planning core of backend/data_generator.py:             *)
(*   compute_dynamic_recipe_mix, generate_recipe_demand,                   *)
(*   generate_mill_recipe_schedule and generate_mill_load; the dataset     *)
(*   appends of run_forecast_service.py and forecast_service.py; and       *)
(*   load_data of fastapi_server.py as test_february_adjustment.py uses    *)
(*   it.  Each is modelled as a state machine over bounded inputs.         *)
(*                                                                         *)
(* Numbers are fixed point, exact for the inputs drawn:                    *)
(*   hours            in ticks, HourDen ticks to the hour                  *)
(*   emitted hours    in hundredths of an hour (round(x, 2))               *)
(*   tons             in hundredths of a ton                               *)
(*   tons_per_hour    in hundredths of a ton per hour (round(tph, 2))      *)
(*   utilization_pct  in hundredths of a percent (round(2))                *)
(* Python's round(x, 2) is modelled by RoundDiv: nearest, ties to even.    *)
(* Arithmetic is exact: float errors of the order of 1e-13 are not          *)
(* modelled.  Every (date, mill) has a capacity row.  sort_values leaves    *)
(* the order of rows of equal tons open: every such order is an outcome.   *)
(***************************************************************************)
EXTENDS Integers, Sequences, FiniteSets, TLC

\* ------------------------------------------------------------------ bounds
\* available_hours values strictly inside a day: k * AvailStep, k in 1..MaxAvailSteps
MaxAvailSteps == 1

\* default_allocation_pct values: k / MixLevels, k in 0..MixLevels
MixLevels == 5
\* rows of a schedule handed to generate_mill_load on its own
MaxLoadRows == 2

\* the dates of recipe_daily and the mills of mill_capacity, in table order
DateOrder == <<1, 2>>
MillOrder == <<"M1", "M2">>
NumDates == Len(DateOrder)
NumMills == Len(MillOrder)
Dates == {DateOrder[i] : i \in 1..NumDates}
Mills == {MillOrder[i] : i \in 1..NumMills}

\* ------------------------------------------------------------------ units
HourDen == 84 * 100
CentiHour == HourDen \div 100
changeover_penalty == HourDen \div 2
Sentinel == 999 * 100

None == "None"
NoRate == 0 - 1

RecipeOrder == <<"R1", "R2", "R3">>
Recipes == {RecipeOrder[i] : i \in 1..Len(RecipeOrder)}

Min(a, b) == IF a <= b THEN a ELSE b

Abs(a) == IF a < 0 THEN 0 - a ELSE a

\* round(n / d) to the nearest integer, ties to the even one (n >= 0, d > 0)
RoundDiv(n, d) ==
  LET q == n \div d
      r == n % d
  IN  IF 2 * r < d THEN q
      ELSE IF 2 * r > d THEN q + 1
      ELSE IF q % 2 = 0 THEN q ELSE q + 1

\* round(hours, 2) of a tick count, in hundredths of an hour
Round2Hours(t) == RoundDiv(t, CentiHour)

RECURSIVE SeqSum(_)
SeqSum(s) == IF s = <<>> THEN 0 ELSE Head(s) + SeqSum(Tail(s))

\* ------------------------------------------------------------------ inputs
\* recipe_demand rows of one date: (flour_type, recipe_id, recipe_required_tons)
DemandRows(t1, t2s, t2b, t3) ==
  << [flour_type |-> "Superior", recipe_id |-> "R1", tons |-> t1],
     [flour_type |-> "Superior", recipe_id |-> "R2", tons |-> t2s],
     [flour_type |-> "Bakery",   recipe_id |-> "R2", tons |-> t2b],
     [flour_type |-> "Brown",    recipe_id |-> "R3", tons |-> t3] >>

TonStep == 50 * 100

DayDemands ==
  { DemandRows(t1, p[1], p[2], t3) :
      t1 \in {TonStep, 2 * TonStep},
      p  \in {<<40 * 100, 0>>, <<3 * TonStep, 2 * TonStep>>},
      t3 \in {0, TonStep} }

\* the demands of the dates after the first: the Brown row is there, with 0 tons
LaterDayDemands == {day \in DayDemands : day[4].tons = 0}

\* available_hours values of a capacity row, in ticks: a negative value, a
\* maintenance day, values that are no whole hundredth of an hour, a full day
AvailStep == 595 * CentiHour + 70

AvailSet ==
  {0 - changeover_penalty, 0, 20 * HourDen}
    \cup {k * AvailStep : k \in 1..MaxAvailSteps}

\* mill_recipe_rates tables: tons_per_hour per (mill, recipe), NoRate = no row;
\* Spec draws its table from RateTables, SpecDemand also draws ZeroRates
FullRates ==
  [m \in Mills |-> [r \in Recipes |->
     IF r = "R1" THEN (IF m = "M1" THEN 1050 ELSE 1000)
     ELSE IF r = "R2" THEN 1200 ELSE 840]]

RateTables ==
  { FullRates,
    [FullRates EXCEPT !["M2"]["R2"] = NoRate] }

\* a table with a row whose tons_per_hour is 0
ZeroRates == [FullRates EXCEPT !["M1"]["R2"] = 0]

VARIABLES
  recipe_demand,      \* [Dates -> rows]            input, read-only
  mill_capacity,      \* [Dates -> [Mills -> ticks]] input, read-only
  mill_recipe_rates,  \* [Mills -> [Recipes -> tph]] input, read-only
  pc,                 \* position in generate_all_data's scheduling stages
  date_idx,           \* loop over recipe_daily["date"].unique()
  mill_idx,           \* loop over mill_capacity["mill_id"].unique()
  rec_idx,            \* loop over day_recipes.iterrows()
  day_recipes,        \* the date's aggregated demand, sorted
  available_hours,
  current_hour,
  prev_recipe,
  schedule_rows,
  mill_load,
  time_dim,           \* rows of calendar flags       input, read-only
  recipe_eligibility, \* rows of the eligibility table input, read-only
  mix_date_idx,       \* loop over time_dim.iterrows()
  mix_flour_idx,      \* loop over recipe_eligibility["flour_type"].unique()
  mix_rows,           \* the recipe mix: rows of (date, flour_type, recipe_id, pct)
  bulk_flour_demand,  \* rows of (date, flour_type, tons)  input, read-only
  warnings,           \* what the recipe-demand stage reports
  dataset_csv,        \* a stored dataset file: whether it exists, and its rows
  data_cache,         \* the data_cache entry of that dataset
  new_data,           \* the rows generated by a recompute
  calls,              \* how many appends the stored dataset has seen
  datasets_dir,       \* the CSV files of DATA_DIR: missing, empty or with rows
  fastapi_data_cache, \* the global data_cache of fastapi_server
  script_data_cache,  \* the data_cache name the validation script imported
  forecast_args,      \* the arguments and outcomes of one forecast call
  result,             \* what the forecast call returned: <<>> until it returns
  derived_updates     \* the file and cache entry seen by each callback call

vars == << recipe_demand, mill_capacity, mill_recipe_rates, pc, date_idx,
           mill_idx, rec_idx, day_recipes, available_hours, current_hour,
           prev_recipe, schedule_rows, mill_load, time_dim,
           recipe_eligibility, mix_date_idx, mix_flour_idx, mix_rows,
           bulk_flour_demand, warnings, dataset_csv, data_cache, new_data,
           calls, datasets_dir, fastapi_data_cache, script_data_cache,
           forecast_args, result, derived_updates >>

mixVars == << time_dim, recipe_eligibility, mix_date_idx, mix_flour_idx,
              mix_rows >>

schedLocals == << date_idx, mill_idx, rec_idx, day_recipes, available_hours,
                  current_hour, prev_recipe >>

demandVars == << bulk_flour_demand, warnings >>

storeVars == << dataset_csv, data_cache, new_data, calls >>

forecastVars == << forecast_args, result, derived_updates >>

serverVars == << datasets_dir, fastapi_data_cache, script_data_cache >>

inputs == << recipe_demand, mill_capacity, mill_recipe_rates, mixVars,
             demandVars, storeVars, serverVars, forecastVars >>

\* the variables of the forecast call while no forecast is generated
ForecastIdle ==
  /\ forecast_args = <<>>
  /\ result = <<>>
  /\ derived_updates = <<>>

\* the server variables while no server module is loaded
ServerIdle ==
  /\ datasets_dir = <<>>
  /\ fastapi_data_cache = <<>>
  /\ script_data_cache = <<>>

\* the stored-dataset variables while nothing is stored
StoreIdle ==
  /\ dataset_csv = [exists |-> FALSE, rows |-> <<>>]
  /\ data_cache = <<>>
  /\ new_data = <<>>
  /\ calls = 0

\* the recipe-demand variables while no recipe demand is computed
DemandIdle ==
  /\ bulk_flour_demand = <<>>
  /\ warnings = <<>>

\* the recipe-mix variables while no mix is computed
MixIdle ==
  /\ time_dim = <<>>
  /\ recipe_eligibility = <<>>
  /\ mix_date_idx = 1
  /\ mix_flour_idx = 1
  /\ mix_rows = <<>>

\* the scheduler's loop variables before the scheduler has run
SchedIdle ==
  /\ date_idx = 1
  /\ mill_idx = 1
  /\ rec_idx = 1
  /\ day_recipes = <<>>
  /\ available_hours = 0
  /\ current_hour = 0
  /\ prev_recipe = None

\* ------------------------------------------------------------------ scheduler
\* recipe_demand.groupby(["date","recipe_id"])["recipe_required_tons"].sum()
\* for one date: one row per recipe present, in key order
RecipeDaily(rows) ==
  LET Present(r) == \E i \in 1..Len(rows) : rows[i].recipe_id = r
      Total(r) ==
        LET F[i \in 0..Len(rows)] ==
              IF i = 0 THEN 0
              ELSE F[i - 1] + (IF rows[i].recipe_id = r THEN rows[i].tons ELSE 0)
        IN  F[Len(rows)]
      G[k \in 0..Len(RecipeOrder)] ==
        IF k = 0 THEN <<>>
        ELSE IF Present(RecipeOrder[k])
             THEN Append(G[k - 1], [recipe_id |-> RecipeOrder[k],
                                    tons |-> Total(RecipeOrder[k])])
             ELSE G[k - 1]
  IN  G[Len(RecipeOrder)]

\* the orders of the rows in which the tons never fall
AscOrders(rows) ==
  LET n == Len(rows)
      perms == Permutations(1..n)
  IN  { s \in {[k \in 1..n |-> rows[p[k]]] : p \in perms} :
          \A k \in 1..(n - 1) : s[k].tons <= s[k + 1].tons }

\* sort_values("recipe_required_tons", ascending=False): the default
\* kind="quicksort" promises no order among rows of equal tons, so every
\* order in which the tons never rise is an outcome
DescOrders(rows) ==
  LET n == Len(rows)
      perms == Permutations(1..n)
  IN  { s \in {[k \in 1..n |-> rows[p[k]]] : p \in perms} :
          \A k \in 1..(n - 1) : s[k].tons >= s[k + 1].tons }

DayRecipes(d) == DescOrders(RecipeDaily(recipe_demand[d]))

\* floor division: whole hours only
HoursNeededFloor(tons, tph) == (tons \div tph) * HourDen

\* hours_needed = required_tons / tph, in ticks
HoursNeeded(tons, tph) == (tons * HourDen) \div tph

\* the None test dropped: the first entry of a unit is charged too
ChangeoverNoNoneTest(prev, recipe_id) ==
  IF prev # recipe_id THEN changeover_penalty ELSE 0

\* changeover of a row, given the previous recipe of the unit
Changeover(prev, recipe_id) ==
  IF prev # None /\ prev # recipe_id THEN changeover_penalty ELSE 0

\* the rate dropped: the hours are written as tons
TonsProducedNoRate(actual, tph) == RoundDiv(actual * 100, HourDen)

\* tons_produced = actual_hours * tph, rounded to 2 decimals
TonsProduced(actual, tph) == RoundDiv(actual * tph, HourDen)

\* start_hour taken before the changeover
ScheduleRowOfStartAtClock(d, m, recipe_id, cur, changeover, actual, tph) ==
  [ date |-> d, mill_id |-> m, recipe_id |-> recipe_id,
    start_hour |-> Round2Hours(cur),
    end_hour |-> Round2Hours(cur + changeover + actual),
    duration_hours |-> Round2Hours(actual),
    changeover_hours |-> Round2Hours(changeover),
    tons_produced |-> TonsProduced(actual, tph) ]

ScheduleRowOf(d, m, recipe_id, cur, changeover, actual, tph) ==
  [ date |-> d, mill_id |-> m, recipe_id |-> recipe_id,
    start_hour |-> Round2Hours(cur + changeover),
    end_hour |-> Round2Hours(cur + changeover + actual),
    duration_hours |-> Round2Hours(actual),
    changeover_hours |-> Round2Hours(changeover),
    tons_produced |-> TonsProduced(actual, tph) ]

Init ==
  /\ recipe_demand \in [Dates -> DayDemands]
  /\ \A d \in Dates \ {DateOrder[1]} : recipe_demand[d] \in LaterDayDemands
  /\ mill_capacity \in [Dates -> [Mills -> AvailSet]]
  /\ mill_recipe_rates \in RateTables
  /\ pc = "date"
  /\ SchedIdle
  /\ ForecastIdle
  /\ schedule_rows = <<>>
  /\ mill_load = <<>>
  /\ MixIdle
  /\ DemandIdle
  /\ StoreIdle
  /\ ServerIdle

\* for date in recipe_daily["date"].unique(): day_recipes = sorted rows
StartDate ==
  /\ pc = "date"
  /\ day_recipes' \in DayRecipes(DateOrder[date_idx])
  /\ mill_idx' = 1
  /\ pc' = "unit"
  /\ UNCHANGED << inputs, date_idx, rec_idx, available_hours, current_hour,
                  prev_recipe, schedule_rows, mill_load >>

\* the position after the unit (date_idx, mill_idx) has ended
UnitEnded ==
  IF mill_idx < NumMills
  THEN /\ mill_idx' = mill_idx + 1
       /\ pc' = "unit"
       /\ UNCHANGED date_idx
  ELSE /\ mill_idx' = mill_idx
       /\ IF date_idx < NumDates
          THEN date_idx' = date_idx + 1 /\ pc' = "date"
          ELSE date_idx' = date_idx /\ pc' = "load"

\* the clock and the previous recipe kept from the unit before
StartUnitCarryingOver ==
  /\ pc = "unit"
  /\ available_hours' = mill_capacity[DateOrder[date_idx]][MillOrder[mill_idx]]
  /\ rec_idx' = 1
  /\ pc' = "row"
  /\ UNCHANGED << inputs, date_idx, mill_idx, day_recipes, current_hour,
                  prev_recipe, schedule_rows, mill_load >>

\* for mill_id in ...: read the capacity row, reset the unit's locals
StartUnit ==
  /\ pc = "unit"
  /\ available_hours' = mill_capacity[DateOrder[date_idx]][MillOrder[mill_idx]]
  /\ current_hour' = 0
  /\ prev_recipe' = None
  /\ rec_idx' = 1
  /\ pc' = "row"
  /\ UNCHANGED << inputs, date_idx, mill_idx, day_recipes, schedule_rows,
                  mill_load >>

\* the row the inner loop is at, and what the loop body computes from it
Rec == day_recipes[rec_idx]
Tph == mill_recipe_rates[MillOrder[mill_idx]][Rec.recipe_id]
RowChangeover == Changeover(prev_recipe, Rec.recipe_id)
\* the changeover not taken off the remaining hours
RemainingWithChangeover == available_hours - current_hour

Remaining == available_hours - current_hour - RowChangeover
\* the cap by the remaining hours dropped
ActualHoursUncapped == HoursNeeded(Rec.tons, Tph)

ActualHours == Min(HoursNeeded(Rec.tons, Tph), Remaining)

\* the loop never leaves its row
NextRowStaying == UNCHANGED << rec_idx, pc, date_idx, mill_idx >>

\* the inner for loop moves to the next row, or is exhausted
NextRow ==
  IF rec_idx < Len(day_recipes)
  THEN rec_idx' = rec_idx + 1 /\ UNCHANGED << pc, date_idx, mill_idx >>
  ELSE UNCHANGED rec_idx /\ UnitEnded

\* rate_row[...].iloc[0] on an empty selection raises IndexError: the call ends
RowRateMissing ==
  /\ pc = "row"
  /\ Tph = NoRate
  /\ pc' = "raised"
  /\ UNCHANGED << inputs, date_idx, mill_idx, rec_idx, day_recipes,
                  available_hours, current_hour, prev_recipe, schedule_rows,
                  mill_load >>

\* hours_needed = required_tons / tph on two Python floats with tph = 0.0
\* raises ZeroDivisionError: the call ends
RowRateZero ==
  /\ pc = "row"
  /\ Tph = 0
  /\ pc' = "zero_division"
  /\ UNCHANGED << inputs, date_idx, mill_idx, rec_idx, day_recipes,
                  available_hours, current_hour, prev_recipe, schedule_rows,
                  mill_load >>

\* if current_hour + changeover >= available_hours: break
RowBreak ==
  /\ pc = "row"
  /\ Tph > 0
  /\ current_hour + RowChangeover >= available_hours
  /\ UnitEnded
  /\ UNCHANGED << inputs, rec_idx, day_recipes, available_hours, current_hour,
                  prev_recipe, schedule_rows, mill_load >>

\* the changeover charged to the clock although the row is skipped
RowSkipChargingChangeover ==
  /\ pc = "row"
  /\ Tph > 0
  /\ current_hour + RowChangeover < available_hours
  /\ ActualHours <= 0
  /\ NextRow
  /\ current_hour' = current_hour + RowChangeover
  /\ UNCHANGED << inputs, day_recipes, available_hours, prev_recipe,
                  schedule_rows, mill_load >>

\* if actual_hours <= 0: continue
RowSkip ==
  /\ pc = "row"
  /\ Tph > 0
  /\ current_hour + RowChangeover < available_hours
  /\ ActualHours <= 0
  /\ NextRow
  /\ UNCHANGED << inputs, day_recipes, available_hours, current_hour,
                  prev_recipe, schedule_rows, mill_load >>

\* the produced tons taken off the day's demand list
RowEmitConsuming ==
  /\ pc = "row"
  /\ Tph > 0
  /\ current_hour + RowChangeover < available_hours
  /\ ActualHours > 0
  /\ schedule_rows' = Append(schedule_rows,
        ScheduleRowOf(DateOrder[date_idx], MillOrder[mill_idx], Rec.recipe_id,
                      current_hour, RowChangeover, ActualHours, Tph))
  /\ current_hour' = current_hour + RowChangeover + ActualHours
  /\ prev_recipe' = Rec.recipe_id
  /\ day_recipes' = [day_recipes EXCEPT
        ![rec_idx].tons = @ - (ActualHours * Tph) \div HourDen]
  /\ IF current_hour' >= available_hours
     THEN UNCHANGED rec_idx /\ UnitEnded
     ELSE NextRow
  /\ UNCHANGED << inputs, available_hours, mill_load >>

\* the changeover left out of the clock
RowEmitClockWithoutChangeover ==
  /\ pc = "row"
  /\ Tph > 0
  /\ current_hour + RowChangeover < available_hours
  /\ ActualHours > 0
  /\ schedule_rows' = Append(schedule_rows,
        ScheduleRowOf(DateOrder[date_idx], MillOrder[mill_idx], Rec.recipe_id,
                      current_hour, RowChangeover, ActualHours, Tph))
  /\ current_hour' = current_hour + ActualHours
  /\ prev_recipe' = Rec.recipe_id
  /\ IF current_hour' >= available_hours
     THEN UNCHANGED rec_idx /\ UnitEnded
     ELSE NextRow
  /\ UNCHANGED << inputs, day_recipes, available_hours, mill_load >>

\* schedule_rows.append(...); advance the clock; break when the day is full
RowEmit ==
  /\ pc = "row"
  /\ Tph > 0
  /\ current_hour + RowChangeover < available_hours
  /\ ActualHours > 0
  /\ schedule_rows' = Append(schedule_rows,
        ScheduleRowOf(DateOrder[date_idx], MillOrder[mill_idx], Rec.recipe_id,
                      current_hour, RowChangeover, ActualHours, Tph))
  /\ current_hour' = current_hour + RowChangeover + ActualHours
  /\ prev_recipe' = Rec.recipe_id
  /\ IF current_hour' >= available_hours
     THEN UNCHANGED rec_idx /\ UnitEnded
     ELSE NextRow
  /\ UNCHANGED << inputs, day_recipes, available_hours, mill_load >>

\* ------------------------------------------------------------------ load
\* the (date, mill) keys of the schedule, in groupby key order
LoadKeys(rows) ==
  LET Has(d, m) == \E i \in 1..Len(rows) : rows[i].date = d /\ rows[i].mill_id = m
      K == NumDates * NumMills
      KeyAt(k) == << DateOrder[((k - 1) \div NumMills) + 1],
                     MillOrder[((k - 1) % NumMills) + 1] >>
      G[k \in 0..K] ==
        IF k = 0 THEN <<>>
        ELSE IF Has(KeyAt(k)[1], KeyAt(k)[2])
             THEN Append(G[k - 1], KeyAt(k)) ELSE G[k - 1]
  IN  G[K]

\* groupby(["date","mill_id"])["duration_hours"].sum() of one key
ScheduledHours(rows, d, m) ==
  LET F[i \in 0..Len(rows)] ==
        IF i = 0 THEN 0
        ELSE F[i - 1] + (IF rows[i].date = d /\ rows[i].mill_id = m
                         THEN rows[i].duration_hours ELSE 0)
  IN  F[Len(rows)]

\* scheduled / available * 100, which np.where evaluates for every row before
\* it selects: a float division, so a day without hours gives inf or nan
\* (Undefined) and raises nothing
Undefined == "inf"

UtilizationRatio(scheduled, available) ==
  IF available = 0 THEN Undefined
  ELSE IF available > 0
       THEN RoundDiv(scheduled * CentiHour * 100 * 100, available)
       ELSE 0 - RoundDiv(scheduled * CentiHour * 100 * 100, 0 - available)

\* the inner np.where dropped: no sentinel for a day without hours
UtilizationPctNoSentinel(scheduled, available) ==
  IF available > 0 THEN UtilizationRatio(scheduled, available) ELSE 0

\* np.where(available > 0, scheduled / available * 100,
\*          np.where(scheduled > 0, 999, 0)).round(2)
UtilizationPct(scheduled, available) ==
  IF available > 0 THEN UtilizationRatio(scheduled, available)
  ELSE IF scheduled > 0 THEN Sentinel ELSE 0

\* the overload taken as available - scheduled
LoadRowSpareHours(rows, cap, d, m) ==
  LET s == ScheduledHours(rows, d, m)
  IN  [ date |-> d, mill_id |-> m,
        scheduled_hours |-> s,
        available_hours |-> cap[d][m],
        overload_hours |-> cap[d][m] - s * CentiHour,
        utilization_pct |-> UtilizationPct(s, cap[d][m]) ]

\* one row of the load: overload_hours and utilization_pct of a (date, mill)
LoadRow(rows, cap, d, m) ==
  LET s == ScheduledHours(rows, d, m)
  IN  [ date |-> d, mill_id |-> m,
        scheduled_hours |-> s,
        available_hours |-> cap[d][m],
        overload_hours |-> s * CentiHour - cap[d][m],
        utilization_pct |-> UtilizationPct(s, cap[d][m]) ]

MillLoad(rows, cap) ==
  LET keys == LoadKeys(rows)
  IN  [k \in 1..Len(keys) |-> LoadRow(rows, cap, keys[k][1], keys[k][2])]

\* get_alerts: overloads = mill_load[mill_load["overload_hours"] > 0]
Overloads(load) == SelectSeq(load, LAMBDA r : r.overload_hours > 0)

\* pd.DataFrame([]) has no columns: groupby(["date","mill_id"]) on the schedule
\* of a run that emitted nothing raises KeyError
GenerateMillLoadNoSchedule ==
  /\ pc = "load"
  /\ schedule_rows = <<>>
  /\ pc' = "load_raised"
  /\ UNCHANGED << inputs, date_idx, mill_idx, rec_idx, day_recipes,
                  available_hours, current_hour, prev_recipe, schedule_rows,
                  mill_load >>

GenerateMillLoad ==
  /\ pc = "load"
  /\ schedule_rows # <<>>
  /\ mill_load' = MillLoad(schedule_rows, mill_capacity)
  /\ pc' = "done"
  /\ UNCHANGED << inputs, date_idx, mill_idx, rec_idx, day_recipes,
                  available_hours, current_hour, prev_recipe, schedule_rows >>

\* the steps of the scheduler and the load on a rate table of positive rates
Next ==
  \/ StartDate
  \/ StartUnit
  \/ RowRateMissing
  \/ RowBreak
  \/ RowSkip
  \/ RowEmit
  \/ GenerateMillLoadNoSchedule
  \/ GenerateMillLoad

Spec == Init /\ [][Next]_vars

\* the call on a capacity table that repeats the first date's rows on every
\* date; the interpreter runs the single thread of the call on until it
\* returns or raises, so a step that can be taken is taken
InitFair ==
  /\ Init
  /\ \A d \in Dates : mill_capacity[d] = mill_capacity[DateOrder[1]]

SpecFair == InitFair /\ [][Next]_vars /\ WF_vars(Next)

\* generate_mill_load applied to a schedule and a capacity table of its own:
\* rows of (date, mill_id, duration_hours) in hundredths of an hour
LoadDurations == {0, 333}

LoadAvailSet == {0 - changeover_penalty, 0, AvailStep, 18 * 70 * CentiHour}

LoadInputRows ==
  [date : Dates, mill_id : Mills, duration_hours : LoadDurations]

InitLoad ==
  /\ \E n \in 0..MaxLoadRows : schedule_rows \in [1..n -> LoadInputRows]
  /\ mill_capacity \in [Dates -> [Mills -> LoadAvailSet]]
  /\ recipe_demand = <<>>
  /\ mill_recipe_rates = <<>>
  /\ pc = "load"
  /\ SchedIdle
  /\ ForecastIdle
  /\ mill_load = <<>>
  /\ MixIdle
  /\ DemandIdle
  /\ StoreIdle
  /\ ServerIdle

NextLoad == GenerateMillLoadNoSchedule \/ GenerateMillLoad

SpecLoad == InitLoad /\ [][NextLoad]_vars

\* ------------------------------------------------------------------ recipe mix
RamadanBonus == 15
HajjBonus == 10

\* default_allocation_pct values in [0, 1], in hundredths
DefaultSet == {(100 * k) \div MixLevels : k \in 0..MixLevels}

\* an eligibility table: a flour type with three recipes, one with two, and
\* two with a single recipe.  The flour types are processed one by one and
\* never read each other's rows, so the same three values serve all of them.
MixTable(a, b, c) ==
  << [flour_type |-> "Superior", recipe_id |-> "R1", default_allocation_pct |-> a],
     [flour_type |-> "Superior", recipe_id |-> "R2", default_allocation_pct |-> b],
     [flour_type |-> "Superior", recipe_id |-> "R3", default_allocation_pct |-> c],
     [flour_type |-> "Bakery",   recipe_id |-> "R2", default_allocation_pct |-> a],
     [flour_type |-> "Bakery",   recipe_id |-> "R4", default_allocation_pct |-> b],
     [flour_type |-> "Patent",   recipe_id |-> "R5", default_allocation_pct |-> c],
     [flour_type |-> "Brown",    recipe_id |-> "R3", default_allocation_pct |-> a] >>

MixDateOrder == <<1, 2>>

\* recipe_eligibility["flour_type"].unique(): in order of first appearance
FlourTypes(table) ==
  LET F[i \in 0..Len(table)] ==
        IF i = 0 THEN <<>>
        ELSE IF \E j \in 1..(i - 1) : table[j].flour_type = table[i].flour_type
             THEN F[i - 1]
             ELSE Append(F[i - 1], table[i].flour_type)
  IN  F[Len(table)]

\* recipe_eligibility[recipe_eligibility["flour_type"] == flour_type]
Eligible(table, flour) == SelectSeq(table, LAMBDA r : r.flour_type = flour)

HasRecipe(elig, recipe_id) == \E i \in 1..Len(elig) : elig[i].recipe_id = recipe_id

\* allocation_pct of the eligible rows as fractions num[i] / den
\* eligible["allocation_pct"] = eligible["default_allocation_pct"]
StartAllocation(elig) ==
  [ num |-> [i \in 1..Len(elig) |-> elig[i].default_allocation_pct],
    den |-> 100 ]

\* .loc[recipe_id == target, "allocation_pct"] += bonus, then divide by the sum
ShiftAndNormalise(elig, a, target, bonus) ==
  LET shifted == [i \in 1..Len(elig) |->
                    a.num[i] * 100
                      + (IF elig[i].recipe_id = target THEN bonus * a.den ELSE 0)]
  IN  [num |-> shifted, den |-> SeqSum(shifted)]

\* the two seasonal rules of a (date, flour_type)
SeasonalAllocation(day, flour, elig) ==
  LET a0 == StartAllocation(elig)
      a1 == IF day.is_ramadan /\ flour \in {"Superior", "Patent"}
               /\ HasRecipe(elig, "R2")
            THEN ShiftAndNormalise(elig, a0, "R2", RamadanBonus) ELSE a0
      a2 == IF day.is_hajj /\ flour \in {"Bakery"} /\ HasRecipe(elig, "R4")
            THEN ShiftAndNormalise(elig, a1, "R4", HajjBonus) ELSE a1
  IN  a2

\* the rows appended for a (date, flour_type): round(allocation_pct, 4)
MixRowsOf(date, flour, elig, a) ==
  [i \in 1..Len(elig) |->
     [ date |-> date, flour_type |-> flour, recipe_id |-> elig[i].recipe_id,
       allocation_pct |-> RoundDiv(a.num[i] * 10000, a.den) ]]

InitMix ==
  /\ time_dim \in [1..Len(MixDateOrder) ->
                     [is_ramadan : BOOLEAN, is_hajj : BOOLEAN]]
  /\ \E a \in DefaultSet, b \in DefaultSet, c \in DefaultSet :
       recipe_eligibility = MixTable(a, b, c)
  /\ mix_date_idx = 1
  /\ mix_flour_idx = 1
  /\ mix_rows = <<>>
  /\ pc = "mix"
  /\ recipe_demand = <<>>
  /\ mill_capacity = <<>>
  /\ mill_recipe_rates = <<>>
  /\ SchedIdle
  /\ ForecastIdle
  /\ schedule_rows = <<>>
  /\ mill_load = <<>>
  /\ DemandIdle
  /\ StoreIdle
  /\ ServerIdle

\* one pass of the inner loop of compute_dynamic_recipe_mix
MixUnit ==
  /\ pc = "mix"
  /\ LET flours == FlourTypes(recipe_eligibility)
         flour == flours[mix_flour_idx]
         elig == Eligible(recipe_eligibility, flour)
         a == SeasonalAllocation(time_dim[mix_date_idx], flour, elig)
     IN  /\ mix_rows' = mix_rows \o MixRowsOf(MixDateOrder[mix_date_idx], flour, elig, a)
         /\ IF mix_flour_idx < Len(flours)
            THEN /\ mix_flour_idx' = mix_flour_idx + 1
                 /\ UNCHANGED << mix_date_idx, pc >>
            ELSE /\ mix_flour_idx' = 1
                 /\ IF mix_date_idx < Len(time_dim)
                    THEN mix_date_idx' = mix_date_idx + 1 /\ UNCHANGED pc
                    ELSE UNCHANGED mix_date_idx /\ pc' = "mixdone"
  /\ UNCHANGED << recipe_demand, mill_capacity, mill_recipe_rates, schedLocals,
                  schedule_rows, mill_load, time_dim, recipe_eligibility,
                  demandVars, storeVars, serverVars, forecastVars >>

NextMix == MixUnit

SpecMix == InitMix /\ [][NextMix]_vars

\* ------------------------------------------------------------------ recipe demand
\* generate_recipe_demand followed by the scheduler and the load, on a bulk
\* demand and a recipe mix of their own.  allocation_pct is in ten-thousandths;
\* the bulk tons drawn are whole hundreds of tons, so that bulk * allocation is
\* a whole number of hundredths of a ton.  Every date has Superior demand.
NoBulk == 0 - 1
BulkStep == 100 * 100
PctDen == 100 * 100

\* the flour types in the key order of bulk_flour_demand's groupby
FlourOrder == <<"Bakery", "Brown", "Superior">>
FlourSet == {FlourOrder[i] : i \in 1..Len(FlourOrder)}

\* the bulk rows of one date: one row per flour type that has SKUs; Brown may
\* need nothing, or a hundredth of a ton
BulkDay(d, tb, tw, ts) ==
  SelectSeq(<< [date |-> d, flour_type |-> "Bakery",   required_bulk_tons |-> tb],
               [date |-> d, flour_type |-> "Brown",    required_bulk_tons |-> tw],
               [date |-> d, flour_type |-> "Superior", required_bulk_tons |-> ts] >>,
            LAMBDA r : r.required_bulk_tons # NoBulk)

BulkDays(d) ==
  { BulkDay(d, tb, tw, ts) :
      tb \in {NoBulk, BulkStep},
      tw \in {0, 1, BulkStep},
      ts \in {BulkStep, 2 * BulkStep} }

\* the mix rows of one date: Superior split over R1 and R2, Bakery on R2, and
\* Brown on R3 unless Brown has no eligibility rows
MixDay(d, a, brown) ==
  << [date |-> d, flour_type |-> "Superior", recipe_id |-> "R1", allocation_pct |-> a],
     [date |-> d, flour_type |-> "Superior", recipe_id |-> "R2", allocation_pct |-> PctDen - a],
     [date |-> d, flour_type |-> "Bakery",   recipe_id |-> "R2", allocation_pct |-> PctDen] >>
  \o (IF brown
      THEN << [date |-> d, flour_type |-> "Brown", recipe_id |-> "R3",
               allocation_pct |-> PctDen] >>
      ELSE <<>>)

MixDays(d) ==
  { MixDay(d, a, brown) : a \in {PctDen \div 4, PctDen}, brown \in BOOLEAN }

\* the available hours of the mills, the same on every date: a maintenance
\* day, a full day, and a short day of the first mill
DemandCapacities ==
  { [m \in Mills |-> 0],
    [m \in Mills |-> 20 * HourDen],
    [m \in Mills |-> IF m = MillOrder[1] THEN 10 * HourDen ELSE 20 * HourDen] }

\* recipe_required_tons = required_bulk_tons * allocation_pct
RecipeRequiredTons(bulk_tons, pct) == (bulk_tons * pct) \div PctDen

\* the join key without the date: a bulk row meets the mix rows of every date
MergedRowsOfAnyDate(b, mix) ==
  LET m == SelectSeq(mix, LAMBDA x : x.flour_type = b.flour_type)
  IN  [j \in 1..Len(m) |->
         [ date |-> b.date, flour_type |-> b.flour_type,
           recipe_id |-> m[j].recipe_id,
           allocation_pct |-> m[j].allocation_pct,
           tons |-> RecipeRequiredTons(b.required_bulk_tons, m[j].allocation_pct) ]]

\* the rows of bulk.merge(mix, on=["date","flour_type"]) that come from one
\* bulk row: one per mix row with the same key, none when there is no such row
MergedRowsOf(b, mix) ==
  LET m == SelectSeq(mix, LAMBDA x : x.date = b.date
                                       /\ x.flour_type = b.flour_type)
  IN  [j \in 1..Len(m) |->
         [ date |-> b.date, flour_type |-> b.flour_type,
           recipe_id |-> m[j].recipe_id,
           allocation_pct |-> m[j].allocation_pct,
           tons |-> RecipeRequiredTons(b.required_bulk_tons, m[j].allocation_pct) ]]

\* the frame generate_recipe_demand returns, in the order of the bulk rows
RecipeDemandRows(bulk, mix) ==
  LET F[i \in 0..Len(bulk)] ==
        IF i = 0 THEN <<>> ELSE F[i - 1] \o MergedRowsOf(bulk[i], mix)
  IN  F[Len(bulk)]

InitDemand ==
  /\ \E b1 \in BulkDays(DateOrder[1]), b2 \in BulkDays(DateOrder[2]) :
       bulk_flour_demand = b1 \o b2
  /\ \E m1 \in MixDays(DateOrder[1]), m2 \in MixDays(DateOrder[2]) :
       mix_rows = m1 \o m2
  /\ warnings = <<>>
  /\ \E c \in DemandCapacities :
       mill_capacity = [d \in Dates |-> c]
  /\ mill_recipe_rates \in RateTables \cup {ZeroRates}
  /\ recipe_demand = <<>>
  /\ time_dim = <<>>
  /\ recipe_eligibility = <<>>
  /\ mix_date_idx = 1
  /\ mix_flour_idx = 1
  /\ pc = "demand"
  /\ SchedIdle
  /\ ForecastIdle
  /\ schedule_rows = <<>>
  /\ mill_load = <<>>
  /\ StoreIdle
  /\ ServerIdle

\* recipe_demand = generate_recipe_demand(bulk_flour_demand, recipe_mix):
\* nothing is printed, logged or raised for a bulk row that meets no mix row
GenerateRecipeDemand ==
  /\ pc = "demand"
  /\ recipe_demand' =
       [d \in Dates |->
          SelectSeq(RecipeDemandRows(bulk_flour_demand, mix_rows),
                    LAMBDA r : r.date = d)]
  /\ pc' = "date"
  /\ UNCHANGED << mill_capacity, mill_recipe_rates, mixVars, demandVars,
                  storeVars, serverVars, forecastVars, schedLocals,
                  schedule_rows, mill_load >>

NextDemand == GenerateRecipeDemand \/ RowRateZero \/ Next

SpecDemand == InitDemand /\ [][NextDemand]_vars

\* ------------------------------------------------------------------ stored datasets
\* _append_to_dataset (run_forecast_service.py) and the forecast append of
\* generate_forecasts_and_propagate_datasets (forecast_service.py) on a dataset
\* whose rows carry a "date" column, as do the rows of new_data; every date
\* parses.  A row is (date, origin): origin tells stored rows from generated.
MaxStoreDate == 4

StoreDates == 1..MaxStoreDate

\* the appends one stored dataset sees, over the runs of the service
MaxCalls == 3

\* the origin of the rows generated for the n-th append
CallOrigins == <<"generated", "regenerated", "generated3", "generated4">>

\* one row per date of ds, in date order
StoreRows(ds, origin) ==
  LET F[d \in 0..MaxStoreDate] ==
        IF d = 0 THEN <<>>
        ELSE IF d \in ds THEN Append(F[d - 1], [date |-> d, origin |-> origin])
             ELSE F[d - 1]
  IN  F[MaxStoreDate]

\* new_data["date"].min()
MinDate(rows) ==
  CHOOSE d \in {rows[i].date : i \in 1..Len(rows)} :
    \A i \in 1..Len(rows) : d <= rows[i].date

\* nothing removed before the concat
KeepEverything(existing, new) == existing

\* existing_df[existing_df[date_col] < min_new_date]
KeepBeforeMin(existing, new) ==
  SelectSeq(existing, LAMBDA r : r.date < MinDate(new))

\* pd.concat([existing_df, new_data]), or new_data.copy() when nothing is kept
Combined(stored, new) ==
  IF stored.exists THEN KeepBeforeMin(stored.rows, new) \o new ELSE new

InitStore ==
  /\ \/ dataset_csv = [exists |-> FALSE, rows |-> <<>>]
     \/ \E ds \in SUBSET StoreDates :
          dataset_csv = [exists |-> TRUE, rows |-> StoreRows(ds, "stored")]
  /\ data_cache = dataset_csv.rows
  /\ \E ds \in SUBSET StoreDates : new_data = StoreRows(ds, CallOrigins[1])
  /\ calls = 0
  /\ pc = "append"
  /\ recipe_demand = <<>>
  /\ mill_capacity = <<>>
  /\ mill_recipe_rates = <<>>
  /\ SchedIdle
  /\ ForecastIdle
  /\ schedule_rows = <<>>
  /\ mill_load = <<>>
  /\ MixIdle
  /\ DemandIdle
  /\ ServerIdle

\* _append_to_dataset(dataset_name, new_data, ...)
AppendToDataset ==
  /\ pc = "append"
  /\ pc' = "appended"
  /\ IF new_data = <<>>
     THEN UNCHANGED << dataset_csv, data_cache >>
     ELSE /\ dataset_csv' = [exists |-> TRUE,
                             rows |-> Combined(dataset_csv, new_data)]
          /\ data_cache' = Combined(dataset_csv, new_data)
  /\ calls' = calls + 1
  /\ UNCHANGED << recipe_demand, mill_capacity, mill_recipe_rates, mixVars,
                  demandVars, serverVars, new_data, forecastVars, schedLocals,
                  schedule_rows, mill_load >>

\* the append of forecast_df to fact_sku_forecast.csv
AppendForecast ==
  /\ pc = "append"
  /\ pc' = "forecast_appended"
  /\ IF new_data = <<>>
     THEN UNCHANGED << dataset_csv, data_cache >>
     ELSE /\ dataset_csv' = [exists |-> TRUE,
                             rows |-> Combined(dataset_csv, new_data)]
          /\ data_cache' = Combined(dataset_csv, new_data)
  /\ calls' = calls + 1
  /\ UNCHANGED << recipe_demand, mill_capacity, mill_recipe_rates, mixVars,
                  demandVars, serverVars, new_data, forecastVars, schedLocals,
                  schedule_rows, mill_load >>

\* a later run of the service reaches the append of the same dataset: with
\* the rows it generated before, or with newly generated rows
NextCall ==
  /\ pc \in {"appended", "forecast_appended"}
  /\ calls < MaxCalls
  /\ \/ UNCHANGED new_data
     \/ \E ds \in SUBSET StoreDates :
          new_data' = StoreRows(ds, CallOrigins[calls + 1])
  /\ pc' = "append"
  /\ UNCHANGED << recipe_demand, mill_capacity, mill_recipe_rates, mixVars,
                  demandVars, serverVars, dataset_csv, data_cache, calls,
                  forecastVars, schedLocals, schedule_rows, mill_load >>

NextStore == AppendToDataset \/ AppendForecast \/ NextCall

SpecStore == InitStore /\ [][NextStore]_vars

\* ------------------------------------------------------------------ forecast call
\* generate_forecasts_and_propagate_datasets (forecast_service.py) on the
\* forecast file fact_sku_forecast.csv (dataset_csv) and its cache entry
\* (data_cache).  forecast_args holds what the call is given: whether
\* data_cache is a dict, whether dim_sku has rows, whether
\* generate_future_forecast returns (new_data is then its frame) or raises,
\* whether backend_dir is a path, and the callback: none, one that returns,
\* or one that raises.
SkuOrder == <<"SKU1", "SKU2">>

\* forecast rows: one row per date of ds and SKU of the first n SKUs
ForecastRows(ds, n, origin) ==
  LET F[d \in 0..MaxStoreDate] ==
        IF d = 0 THEN <<>>
        ELSE IF d \in ds
             THEN F[d - 1] \o [k \in 1..n |->
                                 [date |-> d, origin |-> origin, sku_id |-> SkuOrder[k]]]
             ELSE F[d - 1]
  IN  F[MaxStoreDate]

ForecastArgs ==
  [ data_cache : BOOLEAN, dim_sku : BOOLEAN, generated : {"rows", "raises"},
    backend_dir : BOOLEAN,
    update_derived_datasets_func : {"none", "returns", "raises"} ]

\* the dict returned when nothing was generated
Failure(message) ==
  [success |-> FALSE, records |-> 0, sku_count |-> 0, message |-> message]

\* forecast_df["sku_id"].nunique()
SkuCount(rows) == Cardinality({rows[i].sku_id : i \in 1..Len(rows)})

InitForecast ==
  /\ \/ dataset_csv = [exists |-> FALSE, rows |-> <<>>]
     \/ \E ds \in SUBSET StoreDates :
          dataset_csv = [exists |-> TRUE, rows |-> ForecastRows(ds, 1, "stored")]
  /\ data_cache = dataset_csv.rows
  /\ \E ds \in SUBSET StoreDates, n \in 1..Len(SkuOrder) :
       new_data = ForecastRows(ds, n, "generated")
  /\ calls = 0
  /\ forecast_args \in ForecastArgs
  /\ result = <<>>
  /\ derived_updates = <<>>
  /\ pc = "forecast"
  /\ recipe_demand = <<>>
  /\ mill_capacity = <<>>
  /\ mill_recipe_rates = <<>>
  /\ SchedIdle
  /\ schedule_rows = <<>>
  /\ mill_load = <<>>
  /\ MixIdle
  /\ DemandIdle
  /\ ServerIdle

\* the three returns before anything is written: data_cache is None, dim_sku
\* is empty, forecast_df is empty
ForecastEarlyReturn ==
  /\ pc = "forecast"
  /\ \/ ~ forecast_args.data_cache
     \/ ~ forecast_args.dim_sku
     \/ forecast_args.generated = "rows" /\ new_data = <<>>
  /\ result' = << Failure(IF ~ forecast_args.data_cache
                          THEN "Data cache not provided"
                          ELSE IF ~ forecast_args.dim_sku
                          THEN "No SKU dimension data available"
                          ELSE "No forecasts generated") >>
  /\ pc' = "returned"
  /\ UNCHANGED << recipe_demand, mill_capacity, mill_recipe_rates, mixVars,
                  demandVars, storeVars, serverVars, forecast_args,
                  derived_updates, schedLocals, schedule_rows, mill_load >>

\* the except left out: the exception leaves the call
ForecastRaisedUncaught ==
  /\ pc = "forecast"
  /\ forecast_args.data_cache
  /\ forecast_args.dim_sku
  /\ \/ forecast_args.generated = "raises"
     \/ new_data # <<>> /\ ~ forecast_args.backend_dir
  /\ pc' = "raised"
  /\ UNCHANGED << recipe_demand, mill_capacity, mill_recipe_rates, mixVars,
                  demandVars, storeVars, serverVars, forecastVars,
                  schedLocals, schedule_rows, mill_load >>

\* except Exception: generate_future_forecast raised, or os.path.join raised
\* on backend_dir = None; nothing has been written yet
ForecastRaised ==
  /\ pc = "forecast"
  /\ forecast_args.data_cache
  /\ forecast_args.dim_sku
  /\ \/ forecast_args.generated = "raises"
     \/ new_data # <<>> /\ ~ forecast_args.backend_dir
  /\ result' = << Failure("Error generating forecasts") >>
  /\ pc' = "returned"
  /\ UNCHANGED << recipe_demand, mill_capacity, mill_recipe_rates, mixVars,
                  demandVars, storeVars, serverVars, forecast_args,
                  derived_updates, schedLocals, schedule_rows, mill_load >>

\* the forecast rows appended to the file and stored in the cache
ForecastWrite ==
  /\ pc = "forecast"
  /\ forecast_args.data_cache
  /\ forecast_args.dim_sku
  /\ forecast_args.generated = "rows"
  /\ new_data # <<>>
  /\ forecast_args.backend_dir
  /\ dataset_csv' = [exists |-> TRUE, rows |-> Combined(dataset_csv, new_data)]
  /\ data_cache' = Combined(dataset_csv, new_data)
  /\ pc' = IF forecast_args.update_derived_datasets_func = "none"
           THEN "counting" ELSE "callback"
  /\ UNCHANGED << recipe_demand, mill_capacity, mill_recipe_rates, mixVars,
                  demandVars, serverVars, new_data, calls, forecastVars,
                  schedLocals, schedule_rows, mill_load >>

\* the inner except left out: the callback's exception reaches the outer one
DerivedUpdateUncaught ==
  /\ pc = "callback"
  /\ derived_updates' = Append(derived_updates,
        [ csv |-> dataset_csv.rows, cache |-> data_cache,
          raised |-> forecast_args.update_derived_datasets_func = "raises" ])
  /\ IF forecast_args.update_derived_datasets_func = "raises"
     THEN /\ result' = << Failure("Error generating forecasts") >>
          /\ pc' = "returned"
     ELSE /\ pc' = "counting"
          /\ UNCHANGED result
  /\ UNCHANGED << recipe_demand, mill_capacity, mill_recipe_rates, mixVars,
                  demandVars, storeVars, serverVars, forecast_args,
                  schedLocals, schedule_rows, mill_load >>

\* update_derived_datasets_func(start_date, end_date): the callback sees the
\* file and the cache entry as they are now; what it raises is printed
DerivedUpdate ==
  /\ pc = "callback"
  /\ derived_updates' = Append(derived_updates,
        [ csv |-> dataset_csv.rows, cache |-> data_cache,
          raised |-> forecast_args.update_derived_datasets_func = "raises" ])
  /\ pc' = "counting"
  /\ UNCHANGED << recipe_demand, mill_capacity, mill_recipe_rates, mixVars,
                  demandVars, storeVars, serverVars, forecast_args, result,
                  schedLocals, schedule_rows, mill_load >>

\* the counts of forecast_df and the success dict
ForecastReturn ==
  /\ pc = "counting"
  /\ result' = << [ success |-> TRUE, records |-> Len(new_data),
                    sku_count |-> SkuCount(new_data),
                    message |-> "Successfully generated" ] >>
  /\ pc' = "returned"
  /\ UNCHANGED << recipe_demand, mill_capacity, mill_recipe_rates, mixVars,
                  demandVars, storeVars, serverVars, forecast_args,
                  derived_updates, schedLocals, schedule_rows, mill_load >>

NextForecast ==
  \/ ForecastEarlyReturn
  \/ ForecastRaised
  \/ ForecastWrite
  \/ DerivedUpdate
  \/ ForecastReturn

SpecForecast == InitForecast /\ [][NextForecast]_vars

\* ------------------------------------------------------------------ server cache
\* load_data of fastapi_server.py, called by test_february_adjustment.py after
\* `from fastapi_server import load_data, data_cache`.  A frame is "rows" or
\* "empty" (a header only); a file may be "missing".
CacheKeys ==
  { "time_dimension", "sku_master", "recipe_master", "recipe_eligibility",
    "recipe_mix", "mill_master", "mill_recipe_rates", "raw_material",
    "sku_forecast", "bulk_flour_demand", "recipe_demand", "mill_capacity",
    "mill_recipe_schedule", "mill_load" }

ForecastKey == "fact_sku_forecast"

\* the files whose state is drawn; the other files of CacheKeys hold rows
DrawnFiles == {"time_dimension", "sku_forecast", "mill_load", ForecastKey}

\* data_cache.get(key, pd.DataFrame())
CacheGet(cache, key) == IF key \in DOMAIN cache THEN cache[key] ELSE "empty"

\* the dict load_data binds to the global name: every file read, or {} after
\* the exception of a missing file
LoadedCache(dir) ==
  IF \A k \in CacheKeys : dir[k] # "missing"
  THEN [k \in CacheKeys |-> dir[k]]
  ELSE <<>>

\* the import: the module's data_cache = {} and the script's name for it
InitServer ==
  /\ \E drawn \in [DrawnFiles -> {"missing", "empty", "rows"}] :
       datasets_dir = [k \in CacheKeys \cup {ForecastKey} |->
                         IF k \in DrawnFiles THEN drawn[k] ELSE "rows"]
  /\ fastapi_data_cache = <<>>
  /\ script_data_cache = <<>>
  /\ pc = "imported"
  /\ recipe_demand = <<>>
  /\ mill_capacity = <<>>
  /\ mill_recipe_rates = <<>>
  /\ SchedIdle
  /\ ForecastIdle
  /\ schedule_rows = <<>>
  /\ mill_load = <<>>
  /\ MixIdle
  /\ DemandIdle
  /\ StoreIdle

\* load_data(): `global data_cache` rebinds the module's name to a new dict;
\* the dict the script imported is not touched
LoadData ==
  /\ pc = "imported"
  /\ fastapi_data_cache' = LoadedCache(datasets_dir)
  /\ pc' = "loaded"
  /\ UNCHANGED << recipe_demand, mill_capacity, mill_recipe_rates, mixVars,
                  demandVars, storeVars, datasets_dir, script_data_cache,
                  forecastVars, schedLocals, schedule_rows, mill_load >>

\* fcast = data_cache.get("fact_sku_forecast", pd.DataFrame());
\* if fcast.empty: sys.exit(1)
ScriptGetForecast ==
  /\ pc = "loaded"
  /\ pc' = IF CacheGet(script_data_cache, ForecastKey) = "empty"
           THEN "exit_no_forecast" ELSE "compare_february"
  /\ UNCHANGED << inputs, schedLocals, schedule_rows, mill_load >>

NextServer == LoadData \/ ScriptGetForecast

SpecServer == InitServer /\ [][NextServer]_vars

\* ------------------------------------------------------------------ claims
\* the emitted entries of one (date, mill), in emission order
UnitRows(d, m) ==
  SelectSeq(schedule_rows, LAMBDA r : r.date = d /\ r.mill_id = m)

SumDuration(rows) ==
  LET F[i \in 0..Len(rows)] ==
        IF i = 0 THEN 0 ELSE F[i - 1] + rows[i].duration_hours
  IN  F[Len(rows)]

\* C1 (as stated): for every (date, mill) with available_hours >= 0 the sum of
\* the emitted duration_hours is at most available_hours (1e-6 h is below one tick).
C1_DurationWithinAvailable ==
  \A d \in Dates, m \in Mills :
    mill_capacity[d][m] >= 0 =>
      SumDuration(UnitRows(d, m)) * CentiHour <= mill_capacity[d][m]

\* C1 (amended): the sum of the emitted duration_hours is at most
\* available_hours + 0.005, and at most available_hours when available_hours
\* is a whole number of hundredths of an hour.
C1_DurationWithinAvailableRounded ==
  \A d \in Dates, m \in Mills :
    mill_capacity[d][m] >= 0 =>
      /\ 2 * SumDuration(UnitRows(d, m)) * CentiHour
           <= 2 * mill_capacity[d][m] + CentiHour
      /\ mill_capacity[d][m] % CentiHour = 0 =>
           SumDuration(UnitRows(d, m)) * CentiHour <= mill_capacity[d][m]

\* a unit of whole hundredths whose last of several entries was cut at the end
\* of the day, and a unit whose single entry was rounded up past the day
C1_Witness ==
  /\ \E d \in Dates, m \in Mills :
       /\ mill_capacity[d][m] % CentiHour = 0
       /\ Len(UnitRows(d, m)) >= 2
       /\ UnitRows(d, m)[Len(UnitRows(d, m))].end_hour * CentiHour
            = mill_capacity[d][m]
  /\ \E d \in Dates, m \in Mills :
       /\ mill_capacity[d][m] > 0
       /\ SumDuration(UnitRows(d, m)) * CentiHour > mill_capacity[d][m]

\* C2: within a (date, mill) the entries are in increasing start_hour order,
\* never overlap, and each entry ends exactly one changeover before the next
\* entry starts.
C2_EntriesContiguous ==
  \A d \in Dates, m \in Mills :
    LET rows == UnitRows(d, m)
    IN  /\ \A i \in 1..Len(rows) : rows[i].start_hour <= rows[i].end_hour
        /\ \A i \in 1..(Len(rows) - 1) :
             /\ rows[i].start_hour < rows[i + 1].start_hour
             /\ rows[i].end_hour <= rows[i + 1].start_hour
             /\ rows[i].end_hour
                  = rows[i + 1].start_hour - rows[i + 1].changeover_hours

\* a unit with three entries, the later ones starting after a changeover gap
C2_Witness ==
  \E d \in Dates, m \in Mills :
    LET rows == UnitRows(d, m)
    IN  /\ Len(rows) >= 3
        /\ rows[2].start_hour = rows[1].end_hour + 50
        /\ rows[3].start_hour = rows[2].end_hour + 50
        /\ rows[3].end_hour > rows[3].start_hour

\* C3: changeover_hours is 0 for the first entry of a (date, mill), 0.5 exactly
\* when the recipe differs from the preceding emitted entry's, and never
\* anything else.
C3_ChangeoverIffSwitch ==
  \A d \in Dates, m \in Mills :
    LET rows == UnitRows(d, m)
    IN  \A i \in 1..Len(rows) :
          /\ rows[i].changeover_hours \in {0, 50}
          /\ i = 1 => rows[i].changeover_hours = 0
          /\ i > 1 => (rows[i].changeover_hours = 50
                         <=> rows[i].recipe_id # rows[i - 1].recipe_id)

\* a second entry of a unit, charged the changeover
C3_Witness ==
  \E d \in Dates, m \in Mills :
    /\ Len(UnitRows(d, m)) >= 2
    /\ UnitRows(d, m)[2].changeover_hours = 50
    /\ UnitRows(d, m)[1].changeover_hours = 0

\* C4 (as stated): a missing mill_recipe_rates row never ends the run; the
\* recipe row is skipped and every unit that has hours, and a demanded recipe
\* it can produce, still gets its entries.
C4_MissingRateSkipsRow ==
  /\ pc # "raised"
  /\ pc = "done" =>
       \A d \in Dates, m \in Mills :
         ( /\ mill_capacity[d][m] > 0
           /\ \E i \in 1..Len(recipe_demand[d]) :
                /\ recipe_demand[d][i].tons > 0
                /\ mill_recipe_rates[m][recipe_demand[d][i].recipe_id] # NoRate )
         => UnitRows(d, m) # <<>>

\* C5 (as stated): a unit whose available_hours is 0 or negative emits no
\* entry, raises no error, and the run continues past it.
C5_NoHoursNoEntryNoError ==
  \A d \in Dates, m \in Mills :
    mill_capacity[d][m] <= 0 =>
      /\ UnitRows(d, m) = <<>>
      /\ ~ ( /\ pc = "raised"
             /\ DateOrder[date_idx] = d
             /\ MillOrder[mill_idx] = m )

\* C6 (as stated): tons_produced equals duration_hours * tons_per_hour to
\* within 0.01 tons, on the values written to the row.
C6_TonsMatchDuration ==
  \A i \in 1..Len(schedule_rows) :
    LET r == schedule_rows[i]
        tph == mill_recipe_rates[r.mill_id][r.recipe_id]
    IN  Abs(100 * r.tons_produced - r.duration_hours * tph) <= 100

\* C6 (amended): tons_produced equals duration_hours * tons_per_hour to within
\* 0.005 * tons_per_hour + 0.005 tons (the two independent roundings).
C6_TonsMatchDurationRounded ==
  \A i \in 1..Len(schedule_rows) :
    LET r == schedule_rows[i]
        tph == mill_recipe_rates[r.mill_id][r.recipe_id]
    IN  /\ tph # NoRate
        /\ 2 * Abs(100 * r.tons_produced - r.duration_hours * tph) <= tph + 100

\* an emitted row whose tons differ from duration * rate by more than 0.01
C6_Witness ==
  \E i \in 1..Len(schedule_rows) :
    LET r == schedule_rows[i]
        tph == mill_recipe_rates[r.mill_id][r.recipe_id]
    IN  /\ r.tons_produced > 0
        /\ Abs(100 * r.tons_produced - r.duration_hours * tph) > 100

\* s holds every row of rows once, in an order in which the tons never rise
\* (the rows of one date differ in their recipe)
IsDescOrderOf(s, rows) ==
  /\ Len(s) = Len(rows)
  /\ \A k \in 1..Len(rows) : \E j \in 1..Len(s) : s[j] = rows[k]
  /\ \A k \in 1..(Len(s) - 1) : s[k].tons >= s[k + 1].tons

\* C8: no step of the scheduler changes the demand: recipe_demand is never
\* written and, for every mill of a date, day_recipes is the date's full
\* aggregated demand, whatever the mills before it produced.
C8_DemandNeverConsumed ==
  [][ /\ recipe_demand' = recipe_demand
      /\ pc' \in {"unit", "row"} =>
           IsDescOrderOf(day_recipes', RecipeDaily(recipe_demand[DateOrder[date_idx']]))
    ]_vars

\* both mills of a date produced the same recipe, together more than its demand
C8_Witness ==
  \E d \in Dates, i \in 1..Len(schedule_rows), j \in 1..Len(schedule_rows) :
    LET a == schedule_rows[i]
        b == schedule_rows[j]
        daily == RecipeDaily(recipe_demand[d])
    IN  /\ a.date = d /\ b.date = d
        /\ a.mill_id = MillOrder[1] /\ b.mill_id = MillOrder[2]
        /\ a.recipe_id = b.recipe_id
        /\ \E k \in 1..Len(daily) :
             /\ daily[k].recipe_id = a.recipe_id
             /\ a.tons_produced + b.tons_produced > daily[k].tons

\* the allocation_pct of the rows emitted for a (date, flour_type), summed
MixSum(date, flour) ==
  LET F[i \in 0..Len(mix_rows)] ==
        IF i = 0 THEN 0
        ELSE F[i - 1] + (IF mix_rows[i].date = date /\ mix_rows[i].flour_type = flour
                         THEN mix_rows[i].allocation_pct ELSE 0)
  IN  F[Len(mix_rows)]

\* C7 (as stated): for every (date, flour_type) emitted the allocation_pct
\* values sum to 1.0 (1e-6 is below one ten-thousandth).
C7_AllocationSumsToOne ==
  \A i \in 1..Len(mix_rows) :
    MixSum(mix_rows[i].date, mix_rows[i].flour_type) = 10000

\* C10 (as stated): scheduled_hours is the sum of the unit's duration_hours,
\* overload_hours = scheduled - available, utilization_pct is exactly
\* scheduled / available * 100 when available > 0, 999 when available = 0 and
\* scheduled > 0, and 0 when both are 0.
C10_LoadRowFormulas ==
  \A k \in 1..Len(mill_load) :
    LET r == mill_load[k]
        s == SumDuration(UnitRows(r.date, r.mill_id))
        a == mill_capacity[r.date][r.mill_id]
    IN  /\ r.scheduled_hours = s
        /\ r.available_hours = a
        /\ r.overload_hours = s * CentiHour - a
        /\ a > 0 => r.utilization_pct * a = s * CentiHour * 100 * 100
        /\ (a = 0 /\ s > 0) => r.utilization_pct = Sentinel
        /\ (a = 0 /\ s = 0) => r.utilization_pct = 0

\* C10 (amended): as C10, with utilization_pct = scheduled / available * 100
\* rounded to 2 decimals when available > 0; every row's utilization_pct is a
\* number, never the inf or nan of a division by zero.
C10_LoadRowFormulasRounded ==
  \A k \in 1..Len(mill_load) :
    LET r == mill_load[k]
        s == SumDuration(UnitRows(r.date, r.mill_id))
        a == mill_capacity[r.date][r.mill_id]
    IN  /\ r.scheduled_hours = s
        /\ r.available_hours = a
        /\ r.overload_hours = s * CentiHour - a
        /\ r.utilization_pct \in Nat
        /\ a > 0 => 2 * Abs(r.utilization_pct * a - s * CentiHour * 100 * 100) <= a
        /\ (a = 0 /\ s > 0) => r.utilization_pct = Sentinel
        /\ (a = 0 /\ s = 0) => r.utilization_pct = 0

\* a load with the three cases: a rounded utilization, the sentinel, and zero
C10_Witness ==
  /\ pc = "done"
  /\ \E k \in 1..Len(mill_load) :
       /\ mill_load[k].available_hours > 0
       /\ mill_load[k].utilization_pct * mill_load[k].available_hours
            # mill_load[k].scheduled_hours * CentiHour * 100 * 100
  /\ \E k \in 1..Len(mill_load) :
       /\ mill_load[k].available_hours = 0
       /\ mill_load[k].scheduled_hours > 0
       /\ mill_load[k].utilization_pct = Sentinel

\* C11 (as stated): the load has a row for every (date, mill) that has a
\* capacity row; a unit with available_hours = 0 and no schedule entries is
\* reported with scheduled_hours 0 and utilization_pct 0.
C11_LoadRowPerCapacityRow ==
  pc = "done" =>
    \A d \in Dates, m \in Mills :
      \E k \in 1..Len(mill_load) :
        /\ mill_load[k].date = d
        /\ mill_load[k].mill_id = m
        /\ (mill_capacity[d][m] = 0 /\ UnitRows(d, m) = <<>>) =>
             (mill_load[k].scheduled_hours = 0 /\ mill_load[k].utilization_pct = 0)

\* the flour types that have a bulk row on date d and whose mix of date d
\* contains recipe r
Contributing(d, r) ==
  { f \in FlourSet :
      /\ \E i \in 1..Len(bulk_flour_demand) :
           bulk_flour_demand[i].date = d /\ bulk_flour_demand[i].flour_type = f
      /\ \E j \in 1..Len(mix_rows) :
           /\ mix_rows[j].date = d /\ mix_rows[j].flour_type = f
           /\ mix_rows[j].recipe_id = r }

\* bulk tons * allocation_pct of recipe r, for one contributing flour type
Contribution(d, f, r) ==
  LET b == CHOOSE i \in 1..Len(bulk_flour_demand) :
             bulk_flour_demand[i].date = d /\ bulk_flour_demand[i].flour_type = f
      a == CHOOSE j \in 1..Len(mix_rows) :
             /\ mix_rows[j].date = d /\ mix_rows[j].flour_type = f
             /\ mix_rows[j].recipe_id = r
  IN  bulk_flour_demand[b].required_bulk_tons * mix_rows[a].allocation_pct

ContributionSum(d, r) ==
  LET F[k \in 0..Len(FlourOrder)] ==
        IF k = 0 THEN 0
        ELSE F[k - 1] + (IF FlourOrder[k] \in Contributing(d, r)
                         THEN Contribution(d, FlourOrder[k], r) ELSE 0)
  IN  F[Len(FlourOrder)]

\* C12: the rows the scheduler reads for a date hold exactly one total per
\* recipe that some flour type with bulk demand has in its mix, equal to the
\* sum over those flour types of bulk tons * allocation_pct, and no row for
\* any other recipe.
C12_OneTotalPerRecipe ==
  pc \in {"unit", "row"} =>
    \A r \in Recipes :
      LET d == DateOrder[date_idx]
          idx == {i \in 1..Len(day_recipes) : day_recipes[i].recipe_id = r}
      IN  IF Contributing(d, r) = {}
          THEN idx = {}
          ELSE /\ Cardinality(idx) = 1
               /\ \A i \in idx :
                    day_recipes[i].tons * PctDen = ContributionSum(d, r)

\* the scheduler of the second date reads an R2 total to which Superior and
\* Bakery both contribute, and has produced R2 on that date
C12_Witness ==
  /\ pc = "row"
  /\ date_idx = 2
  /\ Contributing(DateOrder[2], "R2") = {"Bakery", "Superior"}
  /\ \E i \in 1..Len(day_recipes) :
       /\ day_recipes[i].recipe_id = "R2"
       /\ day_recipes[i].tons = 175 * 100
  /\ \E k \in 1..Len(schedule_rows) :
       /\ schedule_rows[k].date = DateOrder[2]
       /\ schedule_rows[k].recipe_id = "R2"

\* C13 (as stated): a bulk row with positive tons whose (date, flour_type) has
\* no recipe-mix row is left out of the recipe demand and is reported in a
\* warning that names it.
C13_LostDemandReported ==
  pc # "demand" =>
    \A i \in 1..Len(bulk_flour_demand) :
      LET b == bulk_flour_demand[i]
      IN  ( /\ b.required_bulk_tons > 0
            /\ ~ \E j \in 1..Len(mix_rows) :
                   mix_rows[j].date = b.date /\ mix_rows[j].flour_type = b.flour_type )
          => /\ ~ \E k \in 1..Len(recipe_demand[b.date]) :
                    recipe_demand[b.date][k].flour_type = b.flour_type
             /\ \E w \in 1..Len(warnings) :
                  warnings[w].date = b.date /\ warnings[w].flour_type = b.flour_type

\* C14 (as stated): the scheduler never stands at a recipe row of a (mill,
\* recipe) pair whose tons_per_hour is 0, the division by that rate never
\* happens, and no entry is emitted for such a pair.
C14_ZeroRateNeverReached ==
  /\ pc = "row" => Tph # 0
  /\ pc # "zero_division"
  /\ \A k \in 1..Len(schedule_rows) :
       mill_recipe_rates[schedule_rows[k].mill_id][schedule_rows[k].recipe_id] # 0

\* the last date of the recomputed range
MaxDate(rows) ==
  CHOOSE d \in {rows[i].date : i \in 1..Len(rows)} :
    \A i \in 1..Len(rows) : d >= rows[i].date

\* C15 (as stated): an append of rows dated min_date..max_date leaves in the
\* stored dataset, and in its cache entry, every generated row, no stored row
\* dated inside the range, and every stored row dated before min_date or
\* after max_date.
C15_RecomputeReplacesRange ==
  [][ (pc = "append" /\ pc' # "append" /\ new_data # <<>>) =>
        LET lo == MinDate(new_data)
            hi == MaxDate(new_data)
            old == dataset_csv.rows
            now == dataset_csv'.rows
            In(r, rows) == \E i \in 1..Len(rows) : rows[i] = r
        IN  /\ data_cache' = now
            /\ \A i \in 1..Len(new_data) : In(new_data[i], now)
            /\ \A i \in 1..Len(old) :
                 IF lo <= old[i].date /\ old[i].date <= hi
                 THEN ~ In(old[i], now)
                 ELSE In(old[i], now)
    ]_vars

\* the unit of the i-th date and j-th mill has been left by the scheduler
UnitDone(i, j) ==
  \/ pc \in {"load", "done", "load_raised"}
  \/ i < date_idx
  \/ i = date_idx /\ j < mill_idx /\ pc # "date"

\* the tons demanded of recipe r on date d, over all flour types
DemandTons(d, r) ==
  LET rows == recipe_demand[d]
      F[i \in 0..Len(rows)] ==
        IF i = 0 THEN 0
        ELSE F[i - 1] + (IF rows[i].recipe_id = r THEN rows[i].tons ELSE 0)
  IN  F[Len(rows)]

\* Scenario A: 20 hours, R2 = 250 t at 12 t/h, R1 = 100 t at 10.5 t/h, and no
\* other demand
ScenarioA(d, m) ==
  /\ mill_capacity[d][m] = 20 * HourDen
  /\ mill_recipe_rates[m]["R2"] = 12 * 100
  /\ mill_recipe_rates[m]["R1"] = 1050
  /\ DemandTons(d, "R2") = 250 * 100
  /\ DemandTons(d, "R1") = 100 * 100
  /\ DemandTons(d, "R3") = 0

\* C16: in Scenario A the unit emits exactly one entry: R2, start 0, end 20,
\* duration 20, changeover 0, tons 240, and nothing for R1.  In every unit an
\* entry that ends at the end of the available hours is the last one, and the
\* entries follow the order of decreasing demand, so that every recipe of
\* smaller demand gets nothing.
C16_GreedyFill ==
  \A i \in 1..NumDates, j \in 1..NumMills :
    LET d == DateOrder[i]
        m == MillOrder[j]
        rows == UnitRows(d, m)
    IN  /\ (UnitDone(i, j) /\ ScenarioA(d, m)) =>
             rows = << [ date |-> d, mill_id |-> m, recipe_id |-> "R2",
                         start_hour |-> 0, end_hour |-> 20 * 100,
                         duration_hours |-> 20 * 100, changeover_hours |-> 0,
                         tons_produced |-> 240 * 100 ] >>
        /\ \A k \in 1..Len(rows) :
             rows[k].end_hour * CentiHour >= mill_capacity[d][m] => k = Len(rows)
        /\ \A k \in 1..(Len(rows) - 1) :
             DemandTons(d, rows[k].recipe_id) >= DemandTons(d, rows[k + 1].recipe_id)

\* a finished unit of Scenario A, and a finished unit whose second entry took
\* the last hours while a recipe of smaller, positive demand got nothing
C16_Witness ==
  /\ \E i \in 1..NumDates, j \in 1..NumMills :
       /\ UnitDone(i, j)
       /\ ScenarioA(DateOrder[i], MillOrder[j])
       /\ Len(UnitRows(DateOrder[i], MillOrder[j])) = 1
  /\ \E i \in 1..NumDates, j \in 1..NumMills :
       LET d == DateOrder[i]
           rows == UnitRows(d, MillOrder[j])
       IN  /\ UnitDone(i, j)
           /\ Len(rows) = 2
           /\ rows[2].end_hour * CentiHour >= mill_capacity[d][MillOrder[j]]
           /\ \E r \in Recipes :
                /\ DemandTons(d, r) > 0
                /\ \A k \in 1..2 : rows[k].recipe_id # r

\* Scenario B: 20 hours, R1 = 50 t at 10.5 t/h, R2 = 40 t at 12 t/h, and no
\* other demand
ScenarioB(d, m) ==
  /\ mill_capacity[d][m] = 20 * HourDen
  /\ mill_recipe_rates[m]["R1"] = 1050
  /\ mill_recipe_rates[m]["R2"] = 12 * 100
  /\ DemandTons(d, "R1") = 50 * 100
  /\ DemandTons(d, "R2") = 40 * 100
  /\ DemandTons(d, "R3") = 0

\* C17: in Scenario B the unit emits exactly two entries, each value within
\* 0.01: R1 [start 0, end 4.76, duration 4.76, changeover 0, tons 50], then
\* R2 [start 5.26, end 8.59, duration 3.33, changeover 0.5, tons 40].
C17_TwoRecipesWithChangeover ==
  \A i \in 1..NumDates, j \in 1..NumMills :
    LET d == DateOrder[i]
        m == MillOrder[j]
        rows == UnitRows(d, m)
    IN  (UnitDone(i, j) /\ ScenarioB(d, m)) =>
          /\ Len(rows) = 2
          /\ rows[1].recipe_id = "R1"
          /\ Abs(rows[1].start_hour - 0) <= 1
          /\ Abs(rows[1].end_hour - 476) <= 1
          /\ Abs(rows[1].duration_hours - 476) <= 1
          /\ Abs(rows[1].changeover_hours - 0) <= 1
          /\ Abs(rows[1].tons_produced - 50 * 100) <= 1
          /\ rows[2].recipe_id = "R2"
          /\ Abs(rows[2].start_hour - 526) <= 1
          /\ Abs(rows[2].end_hour - 859) <= 1
          /\ Abs(rows[2].duration_hours - 333) <= 1
          /\ Abs(rows[2].changeover_hours - 50) <= 1
          /\ Abs(rows[2].tons_produced - 40 * 100) <= 1

\* a finished unit of Scenario B with its two entries
C17_Witness ==
  \E i \in 1..NumDates, j \in 1..NumMills :
    /\ UnitDone(i, j)
    /\ ScenarioB(DateOrder[i], MillOrder[j])
    /\ Len(UnitRows(DateOrder[i], MillOrder[j])) = 2
    /\ UnitRows(DateOrder[i], MillOrder[j])[2].changeover_hours = 50

\* C18 (as stated): every mix row of a flour type that has exactly one
\* eligibility row has allocation_pct = 1.0, on every date, whatever the
\* flags of the date and the default_allocation_pct of the row.
C18_SingleRecipeGetsAll ==
  \A i \in 1..Len(mix_rows) :
    Len(Eligible(recipe_eligibility, mix_rows[i].flour_type)) = 1 =>
      mix_rows[i].allocation_pct = 100 * 100

\* C19 (as stated): once load_data has returned, the data_cache of the server
\* and of the validation script holds a forecast dataset with rows under the
\* key "fact_sku_forecast", and the script does not leave through its
\* "No forecast data available" exit.
C19_ForecastCachedAfterLoad ==
  /\ pc \in {"loaded", "exit_no_forecast", "compare_february"} =>
       /\ CacheGet(fastapi_data_cache, ForecastKey) = "rows"
       /\ CacheGet(script_data_cache, ForecastKey) = "rows"
  /\ pc # "exit_no_forecast"

\* the scheduler stands at a recipe row with a rate, and the clock plus the
\* changeover of the row has reached the available hours
AtBreak ==
  pc = "row" /\ Tph > 0 /\ current_hour + RowChangeover >= available_hours

\* the scheduler stands at a recipe row with a rate and hours left, and the
\* row needs no hours
AtSkip ==
  /\ pc = "row" /\ Tph > 0
  /\ current_hour + RowChangeover < available_hours
  /\ ActualHours <= 0

\* the step emits nothing and changes neither the clock nor prev_recipe
NothingCharged ==
  /\ schedule_rows' = schedule_rows
  /\ current_hour' = current_hour
  /\ prev_recipe' = prev_recipe

\* C20 (as stated): every emitted entry has duration_hours > 0; when
\* current_hour + changeover >= available_hours the unit stops, emitting
\* nothing and leaving current_hour and prev_recipe alone; a recipe whose
\* actual_hours <= 0 is skipped, leaving current_hour and prev_recipe alone.
C20_NoChangeoverWithoutProduction ==
  [][ /\ \A k \in 1..Len(schedule_rows') :
           schedule_rows'[k].duration_hours > 0
      /\ AtBreak => (NothingCharged /\ pc' \in {"unit", "date", "load"})
      /\ AtSkip => NothingCharged
    ]_vars

\* C20 (amended): every emitted entry stands for production of positive
\* length: the clock moves past start of production, duration_hours >= 0, and
\* duration_hours > 0 when the production is longer than 0.005 h; the break
\* and the skip are as in C20.
C20_NoChangeoverWithoutProductionRounded ==
  [][ /\ \A k \in 1..Len(schedule_rows') :
           schedule_rows'[k].duration_hours >= 0
      /\ (pc = "row" /\ schedule_rows' # schedule_rows) =>
           LET produced == current_hour' - current_hour - RowChangeover
               row == schedule_rows'[Len(schedule_rows')]
           IN  /\ Len(schedule_rows') = Len(schedule_rows) + 1
               /\ produced > 0
               /\ row.changeover_hours * CentiHour = RowChangeover
               /\ 2 * produced > CentiHour => row.duration_hours > 0
      /\ AtBreak => (NothingCharged /\ pc' \in {"unit", "date", "load"})
      /\ AtSkip => NothingCharged
    ]_vars

\* an entry whose duration is written as 0.0, a finished unit that stopped
\* with less than a changeover left before a recipe in demand, and a finished
\* unit with hours to spare in which a recipe of zero demand got no entry
C20_Witness ==
  /\ \E k \in 1..Len(schedule_rows) :
       /\ schedule_rows[k].duration_hours = 0
       /\ schedule_rows[k].tons_produced > 0
  /\ \E i \in 1..NumDates, j \in 1..NumMills :
       LET d == DateOrder[i]
           cap == mill_capacity[d][MillOrder[j]]
           rows == UnitRows(d, MillOrder[j])
       IN  /\ UnitDone(i, j)
           /\ rows # <<>>
           /\ rows[Len(rows)].end_hour * CentiHour < cap
           /\ cap - rows[Len(rows)].end_hour * CentiHour < changeover_penalty
           /\ \E r \in Recipes :
                /\ DemandTons(d, r) > 0
                /\ \A k \in 1..Len(rows) : rows[k].recipe_id # r
  /\ \E i \in 1..NumDates, j \in 1..NumMills :
       LET d == DateOrder[i]
           cap == mill_capacity[d][MillOrder[j]]
           rows == UnitRows(d, MillOrder[j])
       IN  /\ UnitDone(i, j)
           /\ rows # <<>>
           /\ cap - rows[Len(rows)].end_hour * CentiHour > changeover_penalty
           /\ \E k \in 1..Len(recipe_demand[d]) :
                /\ DemandTons(d, recipe_demand[d][k].recipe_id) = 0
                /\ mill_recipe_rates[MillOrder[j]][recipe_demand[d][k].recipe_id] > 0

\* C21: within every (date, mill) the recipes are processed, and the entries
\* emitted, in an order in which the date's required tons never rise, and
\* recipes of equal required tons are processed in the order in which the
\* aggregation lists them.
C21_StableDescendingOrder ==
  /\ pc \in {"unit", "row"} =>
       LET daily == RecipeDaily(recipe_demand[DateOrder[date_idx]])
           Pos(row) == CHOOSE k \in 1..Len(daily) : daily[k] = row
       IN  \A a, b \in 1..Len(day_recipes) :
             a < b =>
               /\ day_recipes[a].tons >= day_recipes[b].tons
               /\ day_recipes[a].tons = day_recipes[b].tons =>
                    Pos(day_recipes[a]) < Pos(day_recipes[b])
  /\ \A d \in Dates, m \in Mills :
       LET rows == UnitRows(d, m)
           daily == RecipeDaily(recipe_demand[d])
           Pos(r) == CHOOSE k \in 1..Len(daily) : daily[k].recipe_id = r
       IN  \A a, b \in 1..Len(rows) :
             a < b =>
               /\ DemandTons(d, rows[a].recipe_id) >= DemandTons(d, rows[b].recipe_id)
               /\ DemandTons(d, rows[a].recipe_id) = DemandTons(d, rows[b].recipe_id) =>
                    Pos(rows[a].recipe_id) < Pos(rows[b].recipe_id)

\* the bonuses, in ten-thousandths, of the seasonal rules that match the day
\* and the flour type and target the recipe
RuleBonus(day, flour, recipe_id) ==
    (IF day.is_ramadan /\ flour \in {"Superior", "Patent"} /\ recipe_id = "R2"
     THEN 100 * RamadanBonus ELSE 0)
  + (IF day.is_hajj /\ flour = "Bakery" /\ recipe_id = "R4"
     THEN 100 * HajjBonus ELSE 0)

\* default_allocation_pct plus the matching bonuses, for every eligible row
Adjusted(day, flour, elig) ==
  [k \in 1..Len(elig) |->
     100 * elig[k].default_allocation_pct + RuleBonus(day, flour, elig[k].recipe_id)]

\* C22: for every (date, flour_type) the allocation of each eligible recipe is
\* its default plus the bonuses of all matching rules that target it, divided
\* by the sum of these adjusted values over the eligible recipes (all rules
\* applied, then one renormalization), compared at the four decimals the rows
\* are written with.
C22_RenormalisedOnce ==
  \A i \in 1..Len(mix_rows) :
    LET row == mix_rows[i]
        elig == Eligible(recipe_eligibility, row.flour_type)
        adj == Adjusted(time_dim[row.date], row.flour_type, elig)
    IN  \A k \in 1..Len(elig) :
          (elig[k].recipe_id = row.recipe_id /\ SeqSum(adj) > 0) =>
            row.allocation_pct = RoundDiv(adj[k] * 10000, SeqSum(adj))

\* the entries of the unit (d, m) run on its own over the rows of order: a
\* clock of its own starting at 0, no previous recipe, nothing read but the
\* unit's capacity, the mill's rates and the date's demand
UnitAlone(d, m, order) ==
  LET avail == mill_capacity[d][m]
      F[k \in 0..Len(order)] ==
        IF k = 0
        THEN [cur |-> 0, prev |-> None, rows |-> <<>>, open |-> TRUE]
        ELSE LET s == F[k - 1]
                 rec == order[k]
                 tph == mill_recipe_rates[m][rec.recipe_id]
                 ch == Changeover(s.prev, rec.recipe_id)
                 actual == Min(HoursNeeded(rec.tons, tph), avail - s.cur - ch)
             IN  IF ~s.open THEN s
                 ELSE IF tph <= 0 \/ s.cur + ch >= avail
                      THEN [s EXCEPT !.open = FALSE]
                 ELSE IF actual <= 0 THEN s
                 ELSE [ cur |-> s.cur + ch + actual,
                        prev |-> rec.recipe_id,
                        rows |-> Append(s.rows,
                                   ScheduleRowOf(d, m, rec.recipe_id, s.cur, ch,
                                                 actual, tph)),
                        open |-> s.cur + ch + actual < avail ]
  IN  F[Len(order)].rows

C24_UnitTerminates ==
  /\ [][ (pc = "row" /\ pc' = "row") => rec_idx' = rec_idx + 1 ]_vars
  /\ [] /\ pc = "row" => rec_idx \in 1..Len(day_recipes)
        /\ (pc = "row" /\ rec_idx > 1) => current_hour < available_hours
        /\ \A d \in Dates, m \in Mills :
             LET rows == UnitRows(d, m)
             IN  /\ Len(rows) <= Len(RecipeDaily(recipe_demand[d]))
                 /\ \A a, b \in 1..Len(rows) :
                      a # b => rows[a].recipe_id # rows[b].recipe_id
  /\ <>(pc \in {"done", "raised", "load_raised"})

\* the call has returned; one unit emitted an entry for every recipe row of
\* its date, another stopped with its hours used up before the last row
C24_Witness ==
  /\ pc = "done"
  /\ \E d \in Dates, m \in Mills :
       /\ Len(RecipeDaily(recipe_demand[d])) = 3
       /\ Len(UnitRows(d, m)) = 3
  /\ \E d \in Dates, m \in Mills :
       LET rows == UnitRows(d, m)
       IN  /\ rows # <<>>
           /\ Len(rows) < Len(RecipeDaily(recipe_demand[d]))
           /\ rows[Len(rows)].end_hour * CentiHour >= mill_capacity[d][m]

\* C25 (as stated): in every unit each entry but the last has duration =
\* required_tons / tons_per_hour and produces the full required tons of its
\* recipe, an entry that produces less ends exactly at available_hours, and no
\* entry produces more than the required tons.
C25_OnlyLastTruncated ==
  \A d \in Dates, m \in Mills :
    LET rows == UnitRows(d, m)
    IN  \A k \in 1..Len(rows) :
          LET need == DemandTons(d, rows[k].recipe_id)
              tph == mill_recipe_rates[m][rows[k].recipe_id]
          IN  /\ k < Len(rows) =>
                   /\ rows[k].duration_hours * tph = 100 * need
                   /\ rows[k].tons_produced = need
              /\ rows[k].tons_produced < need =>
                   rows[k].end_hour * CentiHour = mill_capacity[d][m]
              /\ rows[k].tons_produced <= need

\* C25 (amended): each entry but the last has duration_hours =
\* round(required_tons / tons_per_hour, 2) and tons_produced = the full
\* required tons, an entry that produces less is the last one of its unit and
\* has end_hour = round(available_hours, 2), and no entry produces more than
\* the required tons.
C25_OnlyLastTruncatedRounded ==
  \A d \in Dates, m \in Mills :
    LET rows == UnitRows(d, m)
    IN  \A k \in 1..Len(rows) :
          LET need == DemandTons(d, rows[k].recipe_id)
              tph == mill_recipe_rates[m][rows[k].recipe_id]
          IN  /\ k < Len(rows) =>
                   /\ rows[k].duration_hours = Round2Hours(HoursNeeded(need, tph))
                   /\ rows[k].tons_produced = need
              /\ rows[k].tons_produced < need =>
                   /\ k = Len(rows)
                   /\ rows[k].end_hour = Round2Hours(mill_capacity[d][m])
              /\ rows[k].tons_produced <= need

\* a unit whose first entry is complete, with a duration that is not a whole
\* number of hundredths, and whose last entry is cut; and a unit whose cut
\* entry ends at hours that are not a whole number of hundredths
C25_Witness ==
  /\ \E d \in Dates, m \in Mills :
       LET rows == UnitRows(d, m)
           last == rows[Len(rows)]
           tph == mill_recipe_rates[m][rows[1].recipe_id]
       IN  /\ Len(rows) >= 2
           /\ rows[1].tons_produced = DemandTons(d, rows[1].recipe_id)
           /\ rows[1].duration_hours * tph # 100 * rows[1].tons_produced
           /\ last.tons_produced < DemandTons(d, last.recipe_id)
           /\ last.tons_produced > 0
  /\ \E d \in Dates, m \in Mills :
       LET rows == UnitRows(d, m)
           last == rows[Len(rows)]
       IN  /\ rows # <<>>
           /\ mill_capacity[d][m] % CentiHour # 0
           /\ last.tons_produced < DemandTons(d, last.recipe_id)

\* the sum of duration_hours + changeover_hours over the entries
SumDurationAndChangeover(rows) ==
  LET F[i \in 0..Len(rows)] ==
        IF i = 0 THEN 0
        ELSE F[i - 1] + rows[i].duration_hours + rows[i].changeover_hours
  IN  F[Len(rows)]

\* C26 (as stated): in every unit with an entry the first entry starts at
\* hour 0, 0 <= current_hour <= available_hours throughout, and the end_hour of
\* the last entry equals the sum of duration_hours + changeover_hours over the
\* unit's entries and is at most available_hours.
C26_TimeAccounting ==
  /\ \A d \in Dates, m \in Mills :
       LET rows == UnitRows(d, m)
       IN  rows # <<>> =>
             /\ rows[1].start_hour = 0
             /\ rows[Len(rows)].end_hour = SumDurationAndChangeover(rows)
             /\ rows[Len(rows)].end_hour * CentiHour <= mill_capacity[d][m]
  /\ (pc = "row" /\ UnitRows(DateOrder[date_idx], MillOrder[mill_idx]) # <<>>) =>
       (0 <= current_hour /\ current_hour <= available_hours)

\* C26 (amended): the first entry starts at hour 0, 0 <= current_hour <=
\* available_hours throughout, the end_hour of the last entry is within
\* 0.005 h per rounded term (the entries' durations and the end_hour itself)
\* of the sum of duration_hours + changeover_hours, and it is
\* at most round(available_hours, 2).
C26_TimeAccountingRounded ==
  /\ \A d \in Dates, m \in Mills :
       LET rows == UnitRows(d, m)
       IN  rows # <<>> =>
             /\ rows[1].start_hour = 0
             /\ 2 * Abs(rows[Len(rows)].end_hour - SumDurationAndChangeover(rows))
                  <= Len(rows) + 1
             /\ rows[Len(rows)].end_hour <= Round2Hours(mill_capacity[d][m])
  /\ (pc = "row" /\ UnitRows(DateOrder[date_idx], MillOrder[mill_idx]) # <<>>) =>
       (0 <= current_hour /\ current_hour <= available_hours)

\* a unit of three entries with two changeovers whose last end_hour is not the
\* sum of the written durations and changeovers, and a unit whose last
\* end_hour is written past its available hours
C26_Witness ==
  /\ \E d \in Dates, m \in Mills :
       LET rows == UnitRows(d, m)
       IN  /\ Len(rows) = 3
           /\ rows[2].changeover_hours = 50
           /\ rows[3].changeover_hours = 50
           /\ rows[3].end_hour # SumDurationAndChangeover(rows)
  /\ \E d \in Dates, m \in Mills :
       LET rows == UnitRows(d, m)
       IN  /\ rows # <<>>
           /\ rows[Len(rows)].end_hour * CentiHour > mill_capacity[d][m]

\* C27 (as stated): every load row of a schedule made with the same capacity
\* table has overload_hours <= 0 and utilization_pct <= 100 and never the
\* sentinel 999, and the overload filter selects no row.
C27_NeverOverloaded ==
  /\ \A k \in 1..Len(mill_load) :
       /\ mill_load[k].overload_hours <= 0
       /\ mill_load[k].utilization_pct <= 100 * 100
       /\ mill_load[k].utilization_pct # Sentinel
  /\ Overloads(mill_load) = <<>>

\* C27 (amended): every load row has overload_hours <= 0.005 and
\* utilization_pct <= 100 + round(0.5 / available, 2), and
\* never the sentinel; a row whose available_hours is a whole number of
\* hundredths has overload_hours <= 0 and utilization_pct <= 100 and is not
\* selected by the overload filter.
C27_NeverOverloadedRounded ==
  /\ \A k \in 1..Len(mill_load) :
       LET r == mill_load[k]
           a == r.available_hours
       IN  /\ 2 * r.overload_hours <= CentiHour
           /\ a > 0
           /\ r.utilization_pct
                <= 100 * 100 + RoundDiv(CentiHour * 100 * 100, 2 * a)
           /\ r.utilization_pct # Sentinel
           /\ a % CentiHour = 0 =>
                /\ r.overload_hours <= 0
                /\ r.utilization_pct <= 100 * 100
  /\ \A k \in 1..Len(Overloads(mill_load)) :
       Overloads(mill_load)[k].available_hours % CentiHour # 0

\* a load with a row of a filled unit of whole hundredths, at 100 percent and
\* without overload, and a row that the overload filter selects
C27_Witness ==
  /\ pc = "done"
  /\ \E k \in 1..Len(mill_load) :
       /\ mill_load[k].available_hours % CentiHour = 0
       /\ mill_load[k].overload_hours = 0
       /\ mill_load[k].utilization_pct = 100 * 100
  /\ \E k \in 1..Len(mill_load) :
       /\ mill_load[k].overload_hours > 0
       /\ mill_load[k].utilization_pct > 100 * 100
  /\ Overloads(mill_load) # <<>>

\* the call that is about to run repeats the call before it: its rows are not
\* the rows generated for this append
RepeatedCall ==
  /\ calls >= 1
  /\ new_data # <<>>
  /\ new_data[1].origin = CallOrigins[calls]

C29_FailuresAreValues ==
  [][ /\ pc' \in {"forecast", "callback", "counting", "returned"}
      /\ pc' = "returned" => Len(result') = 1
      /\ ( /\ pc = "forecast"
           /\ \/ ~ forecast_args.data_cache
              \/ ~ forecast_args.dim_sku
              \/ forecast_args.generated = "rows" /\ new_data = <<>> ) =>
           /\ pc' = "returned"
           /\ ~ result'[1].success
           /\ result'[1].records = 0
           /\ result'[1].sku_count = 0
           /\ UNCHANGED << dataset_csv, data_cache, derived_updates >>
      /\ ( /\ pc = "forecast"
           /\ forecast_args.data_cache
           /\ forecast_args.dim_sku
           /\ forecast_args.generated = "raises" ) =>
           /\ pc' = "returned"
           /\ ~ result'[1].success
    ]_vars

\* the call has returned a failure for want of forecast rows, with a stored
\* file and a callback at hand: the file is as stored, the callback not called
C29_Witness ==
  /\ pc = "returned"
  /\ result = << Failure("No forecasts generated") >>
  /\ forecast_args.update_derived_datasets_func # "none"
  /\ dataset_csv.exists
  /\ \A i \in 1..Len(dataset_csv.rows) : dataset_csv.rows[i].origin = "stored"
  /\ Len(dataset_csv.rows) >= 2
  /\ data_cache = dataset_csv.rows
  /\ derived_updates = <<>>

\* C30: whenever the callback is invoked the new forecast rows are already in
\* the forecast file and in the cache entry; whatever the callback does,
\* raising included, the file and the cache entry stay as written and the call
\* returns success = True with the number of generated rows and of their SKUs.
C30_WriteBeforeCallback ==
  LET In(r, rows) == \E i \in 1..Len(rows) : rows[i] = r
  IN  /\ \A k \in 1..Len(derived_updates) :
           /\ new_data # <<>>
           /\ \A i \in 1..Len(new_data) :
                /\ In(new_data[i], derived_updates[k].csv)
                /\ In(new_data[i], derived_updates[k].cache)
           /\ dataset_csv.rows = derived_updates[k].csv
           /\ data_cache = derived_updates[k].cache
      /\ (pc = "returned" /\ derived_updates # <<>>) =>
           /\ Len(derived_updates) = 1
           /\ Len(result) = 1
           /\ result[1].success
           /\ result[1].records = Len(new_data)
           /\ result[1].sku_count = SkuCount(new_data)

\* the call has returned after a callback that raised: the rows of two SKUs
\* are in the file behind a stored row, and the dict reports them
C30_Witness ==
  /\ pc = "returned"
  /\ Len(derived_updates) = 1
  /\ derived_updates[1].raised
  /\ result[1].success
  /\ result[1].sku_count = 2
  /\ result[1].records = 4
  /\ dataset_csv.rows[1].origin = "stored"
  /\ Len(dataset_csv.rows) = 5
  /\ data_cache = dataset_csv.rows
====
